---- MODULE Spec2Model ----
(***************************************************************************)
(* Action Center: the task store and project registry behind the REST     *)
(* routes (/api/tasks, /api/tasks/[id], /api/projects, /api/projects/[id]),*)
(* the snooze resolver of lib/api-helpers and the bucket filters of the   *)
(* page component.                                                         *)
(*                                                                         *)
(* Strings are sequences of one-character strings, so that trim() is      *)
(* computed and not assumed.  Calendar dates ("YYYY-MM-DD", zero padded,   *)
(* compared as strings by the code) are day numbers >= 1; the empty string *)
(* in a date field is 0, which like "" sorts before every date.            *)
(***************************************************************************)
EXTENDS Integers, Sequences, FiniteSets, TLC

VARIABLES
    projects,   \* the Project table: a set of [id, name] rows, name unique
    tasks,      \* the Task table: a set of task rows
    nextPid,    \* the next fresh project id
    nextTid,    \* the next fresh task id
    now,        \* the server clock, in ticks
    last,       \* the last request served and its response
    reqs,       \* requests in flight when handlers interleave (SpecConc)
    tri         \* the page: its today, the task it fetched, the sections showing it (SpecTriage)

vars == <<projects, tasks, nextPid, nextTid, now, last, reqs, tri>>
storeVars == <<projects, tasks, nextPid, nextTid, now, last>>

\* ------------------------------------------------------------------ bounds

\* The server clock runs from tick 0 to MaxNow; every write that lands takes a tick.
MaxNow == 4

\* ------------------------------------------------------------------ values

\* A JSON field that is missing from the request body (JavaScript undefined).
UNDEF == <<"undefined">>
\* A nullable text column holding NULL.
NULL == <<"null">>
\* A nullable date column holding NULL.
NoDate == -1
\* A date field missing from the request body.
AbsentDate == -2
\* The empty string in a date field.
EmptyDate == 0

UNCATEGORISED == <<"U", "n", "c", "a", "t", "e", "g", "o", "r", "i", "s", "e", "d">>

VALID_STATUSES == {"pending", "in_progress", "done", "snoozed"}

\* String.prototype.trim on a sequence of characters.
RECURSIVE TrimStart(_)
TrimStart(s) ==
    IF s # <<>> /\ Head(s) = " " THEN TrimStart(Tail(s)) ELSE s

RECURSIVE TrimEnd(_)
TrimEnd(s) ==
    IF s # <<>> /\ s[Len(s)] = " " THEN TrimEnd(SubSeq(s, 1, Len(s) - 1)) ELSE s

Trim(s) == TrimEnd(TrimStart(s))

\* !x for a string-or-undefined request field.
Falsy(s) == s = UNDEF \/ s = NULL \/ s = <<>>

\* new Date().toISOString().split("T")[0]: the UTC calendar day of a clock tick.
TicksPerDay == 2
UtcDate(t) == 1 + (t \div TicksPerDay)

\* ------------------------------------------------------------------ storage (Prisma calls)

ProjectNames(P) == {p.name : p \in P}

\* db.project.findUnique({ where: { id } }): the set of matching rows (0 or 1).
ProjectFindUnique(P, id) == {p \in P : p.id = id}

\* An ensure that inserts a row without looking for the name first.
ProjectUpsert_AlwaysCreate(P, name, pid) == P \cup {[id |-> pid, name |-> name]}

\* db.project.upsert({ where: { name }, update: {}, create: { name } })
ProjectUpsert(P, name, pid) ==
    IF name \in ProjectNames(P) THEN P ELSE P \cup {[id |-> pid, name |-> name]}

\* The unique index on Project.name: would writing name to row id collide?
NameTaken(P, id, name) == \E q \in P : q.id # id /\ q.name = name

\* The @updatedAt column: refreshed on every write to the row.
Touch(t, ts) == [t EXCEPT !.updated_at = ts]

\* db.task.updateMany({ where: { project: old }, data: { project: new } })
TaskUpdateMany(T, old, new, ts) ==
    {IF t.project = old THEN Touch([t EXCEPT !.project = new], ts) ELSE t : t \in T}

\* resolveSnooze with the lapse taken as inclusive (<= today).
resolveSnooze_Inclusive(task, ts) ==
    IF /\ task.status = "snoozed"
       /\ task.snoozed_until # NoDate
       /\ task.snoozed_until <= UtcDate(ts)
    THEN [task EXCEPT !.status = "pending"]
    ELSE task

\* resolveSnooze(task), evaluated when the server clock shows tick ts.
resolveSnooze(task, ts) ==
    IF /\ task.status = "snoozed"
       /\ task.snoozed_until # NoDate
       /\ task.snoozed_until < UtcDate(ts)
    THEN [task EXCEPT !.status = "pending"]
    ELSE task

\* ------------------------------------------------------------------ state

NoReq == [op |-> "none"]

InitStore ==
    /\ projects = {}
    /\ tasks = {}
    /\ nextPid = 1
    /\ nextTid = 1
    /\ now = 0
    /\ last = [op |-> "init", req |-> NoReq, status |-> 0, error |-> "", body |-> <<>>]

Respond(op, req, status, error, body) ==
    last' = [op |-> op, req |-> req, status |-> status, error |-> error, body |-> body]

\* A handler's writes land: the store changes and the clock moves on.
Commit(P, T) ==
    /\ projects' = P
    /\ tasks' = T
    /\ now' = IF P # projects \/ T # tasks THEN now + 1 ELSE now

\* ------------------------------------------------------------------ requests

NameA == <<"A">>
NameB == <<"B">>
TitleT == <<"t">>

\* A status missing from the request body.
UNDEF_STATUS == "(undefined)"

\* Names callers send to the project routes: blank, plain, padded, the sentinel.
NameInputs == {<<" ">>, NameA, <<" ", "B">>, UNCATEGORISED}

\* POST /api/tasks bodies callers send.
NoTask ==
    [title |-> TitleT, project |-> NameA, notes |-> UNDEF, due_date |-> AbsentDate,
     source |-> "manual"]

NewTasks ==
    {NoTask,
     [NoTask EXCEPT !.project = UNCATEGORISED, !.due_date = 3],
     [NoTask EXCEPT !.project = <<" ">>],
     [NoTask EXCEPT !.title = UNDEF, !.project = NameB]}

NoPatch ==
    [title |-> UNDEF, notes |-> UNDEF, project |-> UNDEF, status |-> UNDEF_STATUS,
     due_date |-> AbsentDate, snoozed_until |-> AbsentDate]

\* PATCH bodies callers send.
Patches ==
    {[NoPatch EXCEPT !.project = p] : p \in {<<>>, NameB}}
    \cup {[NoPatch EXCEPT !.status = "done"]}
    \cup {[NoPatch EXCEPT !.status = "bogus", !.project = NameB]}

\* Bodies an agent or the page sends to POST /api/tasks: padded, missing and blank fields.
TaskBodies ==
    {NoTask,
     [NoTask EXCEPT !.title = <<" ", "t", " ">>, !.project = <<" ", "A">>],
     [NoTask EXCEPT !.title = UNDEF],
     [NoTask EXCEPT !.title = <<" ">>],
     [NoTask EXCEPT !.project = UNDEF],
     [NoTask EXCEPT !.project = <<" ", " ">>]}

\* The body of a snooze request.
SnoozeBody(until) == [NoPatch EXCEPT !.status = "snoozed", !.snoozed_until = until]

\* The body handleReopen sends: the status and the new due date in one PATCH.
ReopenBody(newDate) == [NoPatch EXCEPT !.status = "pending", !.due_date = newDate]

\* Query strings callers send to GET /api/tasks; a missing parameter reads as null.
ProjectFilters == {NULL, NameA}
StatusFilters == {UNDEF_STATUS, "pending", "snoozed"}

\* Ids a caller may name: every id handed out so far, and one that was never issued.
TaskIds == 1..nextTid
ProjectIds == 1..nextPid

\* ------------------------------------------------------------------ task routes

\* Column defaults of the Task model applied by db.task.create.
TaskDefaults(tid, ts) ==
    [id |-> tid, status |-> "pending", snoozed_until |-> NoDate,
     created_at |-> ts, updated_at |-> ts]

\* db.task.create storing the title and project as sent, untrimmed.
TaskCreate_NoTrim(T, tid, ts, title, project, notes, due_date, source) ==
    LET d == TaskDefaults(tid, ts) IN
    T \cup {[id |-> d.id,
             title |-> title,
             notes |-> IF notes = UNDEF THEN NULL ELSE notes,
             project |-> project,
             status |-> d.status,
             due_date |-> IF due_date = AbsentDate THEN NoDate ELSE due_date,
             snoozed_until |-> d.snoozed_until,
             source |-> IF source = "claude" THEN "claude" ELSE "manual",
             created_at |-> d.created_at,
             updated_at |-> d.updated_at]}

\* db.task.create({ data }) of POST /api/tasks
TaskCreate(T, tid, ts, title, project, notes, due_date, source) ==
    LET d == TaskDefaults(tid, ts) IN
    T \cup {[id |-> d.id,
             title |-> Trim(title),
             notes |-> IF notes = UNDEF THEN NULL ELSE notes,
             project |-> Trim(project),
             status |-> d.status,
             due_date |-> IF due_date = AbsentDate THEN NoDate ELSE due_date,
             snoozed_until |-> d.snoozed_until,
             source |-> IF source = "claude" THEN "claude" ELSE "manual",
             created_at |-> d.created_at,
             updated_at |-> d.updated_at]}

\* POST /api/tasks
CreateTask(title, project, notes, due_date, source) ==
    LET req == [title |-> title, project |-> project, notes |-> notes,
                due_date |-> due_date, source |-> source] IN
    /\ now < MaxNow
    /\ IF Falsy(title) \/ Trim(title) = <<>>
       THEN /\ Respond("createTask", req, 400, "title is required", <<>>)
            /\ UNCHANGED <<projects, tasks, nextPid, nextTid, now>>
       ELSE IF Falsy(project) \/ Trim(project) = <<>>
       THEN /\ Respond("createTask", req, 400, "project is required", <<>>)
            /\ UNCHANGED <<projects, tasks, nextPid, nextTid, now>>
       ELSE LET P == ProjectUpsert(projects, Trim(project), nextPid)
                T == TaskCreate(tasks, nextTid, now, title, project, notes, due_date, source)
            IN  /\ Commit(P, T)
                /\ nextPid' = IF P # projects THEN nextPid + 1 ELSE nextPid
                /\ nextTid' = nextTid + 1
                /\ Respond("createTask", req, 201, "", <<CHOOSE t \in T : t.id = nextTid>>)

\* A data object that leaves the due date out whenever the body carries a status.
ApplyPatch_StatusDropsDueDate(t, b) ==
    [t EXCEPT !.title = IF b.title # UNDEF THEN b.title ELSE @,
              !.notes = IF b.notes # UNDEF THEN b.notes ELSE @,
              !.project = IF b.project # UNDEF THEN b.project ELSE @,
              !.status = IF b.status # UNDEF_STATUS THEN b.status ELSE @,
              !.due_date = IF b.due_date # AbsentDate /\ b.status = UNDEF_STATUS
                           THEN b.due_date ELSE @,
              !.snoozed_until = IF b.snoozed_until # AbsentDate THEN b.snoozed_until ELSE @]

\* A data object that clears the due date whenever the body carries a status alone.
ApplyPatch_StatusClearsDueDate(t, b) ==
    [t EXCEPT !.title = IF b.title # UNDEF THEN b.title ELSE @,
              !.notes = IF b.notes # UNDEF THEN b.notes ELSE @,
              !.project = IF b.project # UNDEF THEN b.project ELSE @,
              !.status = IF b.status # UNDEF_STATUS THEN b.status ELSE @,
              !.due_date = IF b.due_date # AbsentDate THEN b.due_date
                           ELSE IF b.status # UNDEF_STATUS THEN NoDate ELSE @,
              !.snoozed_until = IF b.snoozed_until # AbsentDate THEN b.snoozed_until ELSE @]

\* The data object of db.task.update in PATCH /api/tasks/[id]: only the fields present.
ApplyPatch(t, b) ==
    [t EXCEPT !.title = IF b.title # UNDEF THEN b.title ELSE @,
              !.notes = IF b.notes # UNDEF THEN b.notes ELSE @,
              !.project = IF b.project # UNDEF THEN b.project ELSE @,
              !.status = IF b.status # UNDEF_STATUS THEN b.status ELSE @,
              !.due_date = IF b.due_date # AbsentDate THEN b.due_date ELSE @,
              !.snoozed_until = IF b.snoozed_until # AbsentDate THEN b.snoozed_until ELSE @]

\* A task.update that stores the row as resolveSnooze would show it.
TaskUpdate_WritesResolved(T, id, b, ts) ==
    {IF t.id = id THEN resolveSnooze(Touch(ApplyPatch(t, b), ts), ts) ELSE t : t \in T}

\* db.task.update({ where: { id }, data }): the rows after the write.
TaskUpdate(T, id, b, ts) ==
    {IF t.id = id THEN Touch(ApplyPatch(t, b), ts) ELSE t : t \in T}

\* A PATCH handler that ensures the project before it validates the status.
UpdateTask_EnsuresFirst(id, b) ==
    LET req == [id |-> id, body |-> b]
        P == IF ~Falsy(b.project) THEN ProjectUpsert(projects, b.project, nextPid)
             ELSE projects
    IN
    /\ now < MaxNow
    /\ nextPid' = IF P # projects THEN nextPid + 1 ELSE nextPid
    /\ UNCHANGED nextTid
    /\ IF b.status # UNDEF_STATUS /\ b.status \notin VALID_STATUSES
       THEN /\ Commit(P, tasks)
            /\ Respond("updateTask", req, 400, "Invalid status", <<>>)
       ELSE IF \E t \in tasks : t.id = id
       THEN LET T == TaskUpdate(tasks, id, b, now)
                u == CHOOSE t \in T : t.id = id
            IN  /\ Commit(P, T)
                /\ Respond("updateTask", req, 200, "", <<resolveSnooze(u, now)>>)
       ELSE /\ Commit(P, tasks)
            /\ Respond("updateTask", req, 404, "Task not found", <<>>)

\* PATCH /api/tasks/[id]
UpdateTask(id, b) ==
    LET req == [id |-> id, body |-> b] IN
    /\ now < MaxNow
    /\ IF b.status # UNDEF_STATUS /\ b.status \notin VALID_STATUSES
       THEN /\ Respond("updateTask", req, 400, "Invalid status", <<>>)
            /\ UNCHANGED <<projects, tasks, nextPid, nextTid, now>>
       ELSE LET P == IF ~Falsy(b.project)
                     THEN ProjectUpsert(projects, b.project, nextPid)
                     ELSE projects
            IN  /\ nextPid' = IF P # projects THEN nextPid + 1 ELSE nextPid
                /\ UNCHANGED nextTid
                /\ IF \E t \in tasks : t.id = id
                   THEN LET T == TaskUpdate(tasks, id, b, now)
                            u == CHOOSE t \in T : t.id = id
                        IN  /\ Commit(P, T)
                            /\ Respond("updateTask", req, 200, "", <<resolveSnooze(u, now)>>)
                   ELSE /\ Commit(P, tasks)
                        /\ Respond("updateTask", req, 404, "Task not found", <<>>)

\* DELETE /api/tasks/[id]
DeleteTask(id) ==
    LET req == [id |-> id] IN
    /\ now < MaxNow
    /\ UNCHANGED <<nextPid, nextTid>>
    /\ IF \E t \in tasks : t.id = id
       THEN /\ Commit(projects, {t \in tasks : t.id # id})
            /\ Respond("deleteTask", req, 204, "", <<>>)
       ELSE /\ Commit(projects, tasks)
            /\ Respond("deleteTask", req, 404, "Task not found", <<>>)

\* db.task.findMany({ where, orderBy: { created_at: "desc" } })
RECURSIVE TaskOrderByCreatedDesc(_)
TaskOrderByCreatedDesc(T) ==
    IF T = {} THEN <<>>
    ELSE LET first == CHOOSE t \in T : \A q \in T : t.created_at >= q.created_at
         IN  <<first>> \o TaskOrderByCreatedDesc(T \ {first})

TaskFindMany(T, project, status) ==
    TaskOrderByCreatedDesc(
        {t \in T : /\ (~Falsy(project) => t.project = project)
                   /\ (status # UNDEF_STATUS => t.status = status)})

\* GET /api/tasks
ListTasks(project, status) ==
    LET rows == TaskFindMany(tasks, project, status) IN
    /\ Respond("listTasks", [project |-> project, status |-> status], 200, "",
               [i \in 1..Len(rows) |-> resolveSnooze(rows[i], now)])
    /\ UNCHANGED <<projects, tasks, nextPid, nextTid, now>>

\* GET /api/tasks/[id]
GetTask(id) ==
    /\ IF \E t \in tasks : t.id = id
       THEN Respond("getTask", [id |-> id], 200, "",
                    <<resolveSnooze(CHOOSE t \in tasks : t.id = id, now)>>)
       ELSE Respond("getTask", [id |-> id], 404, "Task not found", <<>>)
    /\ UNCHANGED <<projects, tasks, nextPid, nextTid, now>>

\* Time passes between requests.
Tick ==
    /\ now < MaxNow
    /\ now' = now + 1
    /\ UNCHANGED <<projects, tasks, nextPid, nextTid, last>>

\* ------------------------------------------------------------------ project routes

\* A POST handler whose create never meets the unique index.
CreateProject_NoConflict(name) ==
    LET req == [name |-> name] IN
    /\ now < MaxNow
    /\ UNCHANGED nextTid
    /\ IF Falsy(name) \/ Trim(name) = <<>>
       THEN /\ Respond("createProject", req, 400, "name is required", <<>>)
            /\ UNCHANGED <<projects, tasks, nextPid, now>>
       ELSE LET p == [id |-> nextPid, name |-> Trim(name)] IN
            /\ Commit(projects \cup {p}, tasks)
            /\ nextPid' = nextPid + 1
            /\ Respond("createProject", req, 201, "", <<p>>)

\* POST /api/projects
CreateProject(name) ==
    LET req == [name |-> name] IN
    /\ now < MaxNow
    /\ UNCHANGED nextTid
    /\ IF Falsy(name) \/ Trim(name) = <<>>
       THEN /\ Respond("createProject", req, 400, "name is required", <<>>)
            /\ UNCHANGED <<projects, tasks, nextPid, now>>
       ELSE IF Trim(name) \in ProjectNames(projects)
       THEN \* db.project.create throws P2002 on the unique index
            /\ Respond("createProject", req, 409, "already exists", <<>>)
            /\ UNCHANGED <<projects, tasks, nextPid, now>>
       ELSE LET p == [id |-> nextPid, name |-> Trim(name)] IN
            /\ Commit(projects \cup {p}, tasks)
            /\ nextPid' = nextPid + 1
            /\ Respond("createProject", req, 201, "", <<p>>)

\* db.project.update({ where: { id }, data: { name } }): the rows after the write.
ProjectUpdate(P, id, name) ==
    {IF p.id = id THEN [p EXCEPT !.name = name] ELSE p : p \in P}

\* The rename's two writes issued without a transaction: when project.update throws
\* on the unique index, task.updateMany lands all the same.
RenameTransaction_NoRollback(P, T, id, oldName, newName, ts) ==
    IF ProjectFindUnique(P, id) = {}
    THEN [ok |-> FALSE, code |-> "P2025", projects |-> P, tasks |-> T]
    ELSE IF NameTaken(P, id, newName)
    THEN [ok |-> FALSE, code |-> "P2002", projects |-> P,
          tasks |-> TaskUpdateMany(T, oldName, newName, ts)]
    ELSE [ok |-> TRUE, code |-> "",
          projects |-> ProjectUpdate(P, id, newName),
          tasks |-> TaskUpdateMany(T, oldName, newName, ts)]

\* db.$transaction([project.update, task.updateMany]) of PATCH /api/projects/[id]:
\* project.update throws P2025 when the row is gone and P2002 when the name is
\* taken, and then neither write lands.
RenameTransaction(P, T, id, oldName, newName, ts) ==
    IF ProjectFindUnique(P, id) = {}
    THEN [ok |-> FALSE, code |-> "P2025", projects |-> P, tasks |-> T]
    ELSE IF NameTaken(P, id, newName)
    THEN [ok |-> FALSE, code |-> "P2002", projects |-> P, tasks |-> T]
    ELSE [ok |-> TRUE, code |-> "",
          projects |-> ProjectUpdate(P, id, newName),
          tasks |-> TaskUpdateMany(T, oldName, newName, ts)]

\* PATCH /api/projects/[id]
RenameProject(id, name) ==
    LET req == [id |-> id, name |-> name] IN
    /\ now < MaxNow
    /\ UNCHANGED <<nextPid, nextTid>>
    /\ IF Falsy(name) \/ Trim(name) = <<>>
       THEN /\ Respond("renameProject", req, 400, "name is required", <<>>)
            /\ UNCHANGED <<projects, tasks, now>>
       ELSE IF ProjectFindUnique(projects, id) = {}
       THEN /\ Respond("renameProject", req, 404, "Project not found", <<>>)
            /\ UNCHANGED <<projects, tasks, now>>
       ELSE LET existing == CHOOSE p \in projects : p.id = id
                tx == RenameTransaction(projects, tasks, id, existing.name, Trim(name), now)
            IN  /\ Commit(tx.projects, tx.tasks)
                /\ IF tx.ok
                   THEN Respond("renameProject", req, 200, "",
                                <<CHOOSE p \in tx.projects : p.id = id>>)
                   ELSE IF tx.code = "P2002"
                   THEN Respond("renameProject", req, 409, "already exists", <<>>)
                   ELSE Respond("renameProject", req, 500, "Failed to rename project", <<>>)

\* db.project.delete({ where: { id } }): the rows after the write.
ProjectDelete(P, id) == {p \in P : p.id # id}

\* db.$transaction([task.updateMany, project.delete]) of DELETE /api/projects/[id]:
\* project.delete throws P2025 when the row is gone, the storage layer may fail the
\* transaction (fault), and then neither write lands.
DeleteTransaction(P, T, id, name, ts, fault) ==
    IF fault
    THEN [ok |-> FALSE, code |-> "storage", projects |-> P, tasks |-> T]
    ELSE IF ProjectFindUnique(P, id) = {}
    THEN [ok |-> FALSE, code |-> "P2025", projects |-> P, tasks |-> T]
    ELSE [ok |-> TRUE, code |-> "",
          projects |-> ProjectDelete(P, id),
          tasks |-> TaskUpdateMany(T, name, UNCATEGORISED, ts)]

\* DELETE /api/projects/[id]
DeleteProject(id, fault) ==
    LET req == [id |-> id, fault |-> fault] IN
    /\ now < MaxNow
    /\ UNCHANGED nextTid
    /\ IF ProjectFindUnique(projects, id) = {}
       THEN /\ Respond("deleteProject", req, 404, "Project not found", <<>>)
            /\ UNCHANGED <<projects, tasks, nextPid, now>>
       ELSE LET project == CHOOSE p \in projects : p.id = id
                P1 == ProjectUpsert(projects, UNCATEGORISED, nextPid)
                tx == DeleteTransaction(P1, tasks, id, project.name, now, fault)
            IN  /\ nextPid' = IF P1 # projects THEN nextPid + 1 ELSE nextPid
                /\ Commit(tx.projects, tx.tasks)
                /\ IF tx.ok
                   THEN Respond("deleteProject", req, 204, "", <<>>)
                   ELSE Respond("deleteProject", req, 500, "Failed to delete project", <<>>)

\* db.task.groupBy({ by: ["project"], _count: { id: true } }): one row per project
\* value that occurs among the tasks.
TaskGroupBy(T) ==
    {[project |-> n, count |-> Cardinality({t.id : t \in {u \in T : u.project = n}})] :
        n \in {t.project : t \in T}}

\* A count that ignores the grouping key.
TaskCount_Ungrouped(T, name) == Cardinality(T)

\* countMap.get(p.name) ?? 0
TaskCount(T, name) ==
    LET rows == {r \in TaskGroupBy(T) : r.project = name} IN
    IF rows = {} THEN 0 ELSE (CHOOSE r \in rows : TRUE).count

\* UTF-16 code units of the characters the model's names use (SQLite BINARY order).
CharCode(c) ==
    CASE c = " " -> 32 [] c = "A" -> 65 [] c = "B" -> 66 [] c = "U" -> 85
      [] c = "a" -> 97 [] c = "c" -> 99 [] c = "d" -> 100 [] c = "e" -> 101
      [] c = "g" -> 103 [] c = "i" -> 105 [] c = "n" -> 110 [] c = "o" -> 111
      [] c = "r" -> 114 [] c = "s" -> 115 [] c = "t" -> 116

RECURSIVE StrLess(_, _)
StrLess(a, b) ==
    IF b = <<>> THEN FALSE
    ELSE IF a = <<>> THEN TRUE
    ELSE IF Head(a) # Head(b) THEN CharCode(Head(a)) < CharCode(Head(b))
    ELSE StrLess(Tail(a), Tail(b))

\* db.project.findMany({ orderBy: { name: "asc" } })
RECURSIVE ProjectFindMany(_)
ProjectFindMany(P) ==
    IF P = {} THEN <<>>
    ELSE LET first == CHOOSE p \in P : \A q \in P \ {p} : StrLess(p.name, q.name)
         IN  <<first>> \o ProjectFindMany(P \ {first})

\* The body of GET /api/projects.
ProjectList(P, T) ==
    LET rows == ProjectFindMany(P) IN
    [i \in 1..Len(rows) |->
        [id |-> rows[i].id, name |-> rows[i].name, task_count |-> TaskCount(T, rows[i].name)]]

\* GET /api/projects
ListProjects ==
    /\ Respond("listProjects", NoReq, 200, "", ProjectList(projects, tasks))
    /\ UNCHANGED <<projects, tasks, nextPid, nextTid, now>>

\* ------------------------------------------------------------------ one request at a time

Init ==
    /\ InitStore
    /\ reqs = <<>>
    /\ tri = <<>>

Next ==
    \/ \E b \in NewTasks :
          CreateTask(b.title, b.project, b.notes, b.due_date, b.source) /\ UNCHANGED <<reqs, tri>>
    \/ \E id \in TaskIds, b \in Patches : UpdateTask(id, b) /\ UNCHANGED <<reqs, tri>>
    \/ \E id \in TaskIds : DeleteTask(id) /\ UNCHANGED <<reqs, tri>>
    \/ \E name \in NameInputs : CreateProject(name) /\ UNCHANGED <<reqs, tri>>
    \/ \E id \in ProjectIds, name \in NameInputs : RenameProject(id, name) /\ UNCHANGED <<reqs, tri>>
    \/ \E id \in ProjectIds, fault \in BOOLEAN : DeleteProject(id, fault) /\ UNCHANGED <<reqs, tri>>
    \/ ListProjects /\ UNCHANGED <<reqs, tri>>

Spec == Init /\ [][Next]_vars

\* The task routes alone, with reads and the passage of time.
TaskPatches ==
    {SnoozeBody(1), ReopenBody(3), [NoPatch EXCEPT !.status = "done"],
     [NoPatch EXCEPT !.project = NameB]}

NextTasks ==
    \/ \E b \in TaskBodies :
          CreateTask(b.title, b.project, b.notes, b.due_date, b.source) /\ UNCHANGED <<reqs, tri>>
    \/ \E id \in TaskIds, b \in TaskPatches : UpdateTask(id, b) /\ UNCHANGED <<reqs, tri>>
    \/ \E id \in TaskIds : DeleteTask(id) /\ UNCHANGED <<reqs, tri>>
    \/ \E project \in ProjectFilters, status \in StatusFilters :
          ListTasks(project, status) /\ UNCHANGED <<reqs, tri>>
    \/ \E id \in TaskIds : GetTask(id) /\ UNCHANGED <<reqs, tri>>
    \/ Tick /\ UNCHANGED <<reqs, tri>>

SpecTasks == Init /\ [][NextTasks]_vars

\* ------------------------------------------------------------------ the page: today and the tabs

\* localDate(): the calendar day of clock tick t in a browser tz ticks from UTC.
localDate(t, tz) == 1 + ((t + tz) \div TicksPerDay)

\* shiftDays(base, n)
shiftDays(base, n) == base + n

\* The overdue filter without its status test.
IsOverdue_IgnoresDone(t, today) ==
    t.due_date # NoDate /\ t.due_date < today

\* UpcomingTab: const overdue = tasks.filter(...)
IsOverdue(t, today) ==
    t.status # "done" /\ t.due_date # NoDate /\ t.due_date < today

\* UpcomingTab: const dueToday = tasks.filter(...)
IsDueToday(t, today) ==
    t.status # "done" /\ t.due_date = today

\* The upcoming filter with its lower bound taken as inclusive (>= today).
IsUpcoming_FromToday(t, today, todayPlus6) ==
    /\ t.status # "done"
    /\ t.due_date # NoDate
    /\ t.due_date >= today
    /\ t.due_date <= todayPlus6

\* UpcomingTab: const upcoming = tasks.filter(...)
IsUpcoming(t, today, todayPlus6) ==
    /\ t.status # "done"
    /\ t.due_date # NoDate
    /\ t.due_date > today
    /\ t.due_date <= todayPlus6

\* ScheduledTab: const filtered = tasks.filter(...)
IsScheduled(t, todayPlus7) ==
    t.status # "done" /\ t.due_date # NoDate /\ t.due_date > todayPlus7

\* CompletedTab: const completedAll = tasks.filter(...)
IsCompleted(t) == t.status = "done"

\* UnscheduledTab: const unscheduled = tasks.filter(...); !t.due_date is null or "".
IsUnscheduled(t) ==
    t.status # "done" /\ (t.due_date = NoDate \/ t.due_date = EmptyDate)

\* The sections of the four tabs that show task t.
Buckets(t, today, todayPlus6, todayPlus7) ==
    {b \in {"overdue", "due-today", "upcoming", "scheduled", "completed", "unscheduled"} :
        \/ b = "overdue" /\ IsOverdue(t, today)
        \/ b = "due-today" /\ IsDueToday(t, today)
        \/ b = "upcoming" /\ IsUpcoming(t, today, todayPlus6)
        \/ b = "scheduled" /\ IsScheduled(t, todayPlus7)
        \/ b = "completed" /\ IsCompleted(t)
        \/ b = "unscheduled" /\ IsUnscheduled(t)}

\* The triage clock runs over these ticks; browsers sit this many ticks from UTC.
MaxClock == 5
TriClocks == TicksPerDay..MaxClock
TzOffsets == {-1, 0, 1}
MaxToday == localDate(MaxClock, 1)

\* Stored tasks the tabs are asked to place: every status, a due date or none.
TriDates == 1..(MaxToday + 8)
TriTasks ==
    {[id |-> 1, title |-> TitleT, notes |-> NULL, project |-> NameA, status |-> st,
      due_date |-> due, snoozed_until |-> until, source |-> "manual",
      created_at |-> 0, updated_at |-> 0] :
        st \in VALID_STATUSES, due \in {NoDate} \cup TriDates,
        until \in {NoDate} \cup 1..MaxToday}

InitTriage ==
    /\ InitStore
    /\ reqs = <<>>
    /\ \E t \in TriTasks, c \in TriClocks, tz \in TzOffsets :
          tri = [pc |-> "start", task |-> t, clock |-> c, tz |-> tz,
                 today |-> 0, todayPlus6 |-> 0, todayPlus7 |-> 0,
                 resolvedAt |-> 0, uiTask |-> t, buckets |-> {}]

\* Home mounts: today, todayPlus6 and todayPlus7 are computed once (useMemo).
Mount ==
    /\ tri.pc = "start"
    /\ LET today == localDate(tri.clock, tri.tz) IN
       tri' = [tri EXCEPT !.pc = "mounted",
                          !.today = today,
                          !.todayPlus6 = shiftDays(today, 6),
                          !.todayPlus7 = shiftDays(today, 7)]
    /\ UNCHANGED <<storeVars, reqs>>

\* fetchAll: GET /api/tasks answers tasks.map(resolveSnooze); setTasks stores the answer.
Fetch ==
    /\ tri.pc = "mounted"
    /\ tri' = [tri EXCEPT !.pc = "fetched",
                          !.resolvedAt = tri.clock,
                          !.uiTask = resolveSnooze(tri.task, tri.clock)]
    /\ UNCHANGED <<storeVars, reqs>>

\* The tabs render the fetched task.
Render ==
    /\ tri.pc = "fetched"
    /\ tri' = [tri EXCEPT !.pc = "rendered",
                          !.buckets = Buckets(tri.uiTask, tri.today, tri.todayPlus6,
                                              tri.todayPlus7)]
    /\ UNCHANGED <<storeVars, reqs>>

\* Time passes.
TriTick ==
    /\ tri.pc # "rendered"
    /\ tri.clock < MaxClock
    /\ tri' = [tri EXCEPT !.clock = @ + 1]
    /\ UNCHANGED <<storeVars, reqs>>

NextTriage == Mount \/ Fetch \/ Render \/ TriTick

SpecTriage == InitTriage /\ [][NextTriage]_vars

\* ------------------------------------------------------------------ concurrent requests

\* Requests the server has accepted; each handler runs one awaited storage call per step.
MaxReqs == 3

\* Bodies concurrent callers send.
ConcTasks == {NoTask, [NoTask EXCEPT !.project = <<" ">>]}
ConcNames == {NameA, NameB, <<" ">>}

InitConc ==
    /\ InitStore
    /\ reqs = <<>>
    /\ tri = <<>>

Finish(i, status) ==
    reqs' = [reqs EXCEPT ![i] = [@ EXCEPT !.pc = "done", !.status = status]]

\* POST /api/tasks arrives: the body is validated before any storage call.
BeginCreateTask(b) ==
    /\ Len(reqs) < MaxReqs
    /\ LET bad == \/ Falsy(b.title) \/ Trim(b.title) = <<>>
                  \/ Falsy(b.project) \/ Trim(b.project) = <<>>
       IN reqs' = Append(reqs, [op |-> "createTask", body |-> b,
                                pc |-> IF bad THEN "done" ELSE "upsert",
                                status |-> IF bad THEN 400 ELSE 0, tid |-> 0])
    /\ UNCHANGED <<storeVars, tri>>

\* POST /api/tasks: await db.project.upsert(...)
CreateTaskUpsert(i) ==
    /\ reqs[i].op = "createTask" /\ reqs[i].pc = "upsert"
    /\ LET P == ProjectUpsert(projects, Trim(reqs[i].body.project), nextPid) IN
       /\ Commit(P, tasks)
       /\ nextPid' = IF P # projects THEN nextPid + 1 ELSE nextPid
    /\ reqs' = [reqs EXCEPT ![i] = [@ EXCEPT !.pc = "create"]]
    /\ UNCHANGED <<nextTid, last, tri>>

\* POST /api/tasks: await db.task.create(...), then the 201 response.
CreateTaskCreate(i) ==
    /\ reqs[i].op = "createTask" /\ reqs[i].pc = "create"
    /\ LET b == reqs[i].body IN
       Commit(projects, TaskCreate(tasks, nextTid, now, b.title, b.project, b.notes,
                                   b.due_date, b.source))
    /\ nextTid' = nextTid + 1
    /\ reqs' = [reqs EXCEPT ![i] = [@ EXCEPT !.pc = "done", !.status = 201, !.tid = nextTid]]
    /\ UNCHANGED <<nextPid, last, tri>>

\* PATCH /api/projects/[id] arrives: the name is validated before any storage call.
BeginRenameProject(id, name) ==
    /\ Len(reqs) < MaxReqs
    /\ LET bad == Falsy(name) \/ Trim(name) = <<>> IN
       reqs' = Append(reqs, [op |-> "renameProject", id |-> id, name |-> name,
                             pc |-> IF bad THEN "done" ELSE "find",
                             status |-> IF bad THEN 400 ELSE 0, existing |-> UNDEF,
                             at |-> now])
    /\ UNCHANGED <<storeVars, tri>>

\* PATCH /api/projects/[id]: const existing = await db.project.findUnique(...)
RenameFind(i) ==
    /\ reqs[i].op = "renameProject" /\ reqs[i].pc = "find"
    /\ IF ProjectFindUnique(projects, reqs[i].id) = {}
       THEN Finish(i, 404)
       ELSE reqs' = [reqs EXCEPT ![i] =
                [@ EXCEPT !.pc = "tx",
                          !.existing = (CHOOSE p \in projects : p.id = reqs[i].id).name]]
    /\ UNCHANGED <<storeVars, tri>>

\* PATCH /api/projects/[id]: await db.$transaction([...]), then the response.
RenameTx(i) ==
    /\ reqs[i].op = "renameProject" /\ reqs[i].pc = "tx"
    /\ LET tx == RenameTransaction(projects, tasks, reqs[i].id, reqs[i].existing,
                                   Trim(reqs[i].name), now)
       IN /\ Commit(tx.projects, tx.tasks)
          /\ Finish(i, IF tx.ok THEN 200 ELSE IF tx.code = "P2002" THEN 409 ELSE 500)
    /\ UNCHANGED <<nextPid, nextTid, last, tri>>

\* DELETE /api/projects/[id] arrives.
BeginDeleteProject(id) ==
    /\ Len(reqs) < MaxReqs
    /\ reqs' = Append(reqs, [op |-> "deleteProject", id |-> id, pc |-> "find",
                             status |-> 0, project |-> UNDEF])
    /\ UNCHANGED <<storeVars, tri>>

\* DELETE /api/projects/[id]: const project = await db.project.findUnique(...)
DeleteFind(i) ==
    /\ reqs[i].op = "deleteProject" /\ reqs[i].pc = "find"
    /\ IF ProjectFindUnique(projects, reqs[i].id) = {}
       THEN Finish(i, 404)
       ELSE reqs' = [reqs EXCEPT ![i] =
                [@ EXCEPT !.pc = "ensure",
                          !.project = (CHOOSE p \in projects : p.id = reqs[i].id).name]]
    /\ UNCHANGED <<storeVars, tri>>

\* DELETE /api/projects/[id]: await db.project.upsert({ where: { name: UNCATEGORISED } ... })
DeleteEnsure(i) ==
    /\ reqs[i].op = "deleteProject" /\ reqs[i].pc = "ensure"
    /\ LET P == ProjectUpsert(projects, UNCATEGORISED, nextPid) IN
       /\ Commit(P, tasks)
       /\ nextPid' = IF P # projects THEN nextPid + 1 ELSE nextPid
    /\ reqs' = [reqs EXCEPT ![i] = [@ EXCEPT !.pc = "tx"]]
    /\ UNCHANGED <<nextTid, last, tri>>

\* DELETE /api/projects/[id]: await db.$transaction([...]), then the response.
DeleteTx(i) ==
    /\ reqs[i].op = "deleteProject" /\ reqs[i].pc = "tx"
    /\ LET tx == DeleteTransaction(projects, tasks, reqs[i].id, reqs[i].project, now, FALSE)
       IN /\ Commit(tx.projects, tx.tasks)
          /\ Finish(i, IF tx.ok THEN 204 ELSE 500)
    /\ UNCHANGED <<nextPid, nextTid, last, tri>>

NextConc ==
    \/ \E b \in ConcTasks : BeginCreateTask(b)
    \/ \E i \in DOMAIN reqs : CreateTaskUpsert(i)
    \/ \E i \in DOMAIN reqs : CreateTaskCreate(i)
    \/ \E id \in ProjectIds, name \in ConcNames : BeginRenameProject(id, name)
    \/ \E i \in DOMAIN reqs : RenameFind(i)
    \/ \E i \in DOMAIN reqs : RenameTx(i)
    \/ \E id \in ProjectIds : BeginDeleteProject(id)
    \/ \E i \in DOMAIN reqs : DeleteFind(i)
    \/ \E i \in DOMAIN reqs : DeleteEnsure(i)
    \/ \E i \in DOMAIN reqs : DeleteTx(i)

SpecConc == InitConc /\ [][NextConc]_vars

Quiescent == \A i \in DOMAIN reqs : reqs[i].pc = "done"

\* ------------------------------------------------------------------ the page: optimistic updates

\* Requests the page has issued; each PATCH is served and answered in its own steps.
MaxPageReqs == 3

\* The date the user picks in the reschedule and reopen tooltips.
PageNewDate == 5

\* The rows the user works on.
PageTargets == {1}

\* Stores the page is opened on: two tasks created one after the other under "A",
\* the first due before the second, then completed in the order given (none or both).
PageCompletions == {<<>>, <<2, 1>>}

RECURSIVE CompleteInOrder(_, _, _)
CompleteInOrder(T, ids, ts) ==
    IF ids = <<>> THEN T
    ELSE CompleteInOrder(TaskUpdate(T, Head(ids), [NoPatch EXCEPT !.status = "done"], ts),
                         Tail(ids), ts + 1)

PageStore(d1, d2, done) ==
    CompleteInOrder(
        TaskCreate(TaskCreate({}, 1, 0, TitleT, NameA, UNDEF, d1, "manual"),
                   2, 1, TitleT, NameA, UNDEF, d2, "manual"),
        done, 2)

InitPage ==
    /\ \E done \in PageCompletions :
          /\ tasks = PageStore(3, 4, done)
          /\ now = 2 + Len(done)
    /\ projects = ProjectUpsert({}, NameA, 1)
    /\ nextPid = 2
    /\ nextTid = 3
    /\ last = [op |-> "init", req |-> NoReq, status |-> 0, error |-> "", body |-> <<>>]
    /\ reqs = <<>>
    /\ tri = [pc |-> "start", today |-> 0, todayPlus6 |-> 0, todayPlus7 |-> 0, ui |-> <<>>]

\* The page's copy of task id, and the page's list with that copy replaced.
UiTask(ui, id) == ui[CHOOSE i \in DOMAIN ui : ui[i].id = id]
UiReplace(ui, id, t) == [i \in DOMAIN ui |-> IF ui[i].id = id THEN t ELSE ui[i]]
UiIds(ui) == {ui[i].id : i \in DOMAIN ui}

\* Home mounts in a browser on UTC: today and its shifts are computed once.
PageMount ==
    /\ tri.pc = "start"
    /\ LET today == localDate(now, 0) IN
       tri' = [tri EXCEPT !.pc = "mounted",
                          !.today = today,
                          !.todayPlus6 = shiftDays(today, 6),
                          !.todayPlus7 = shiftDays(today, 7)]
    /\ UNCHANGED <<storeVars, reqs>>

\* fetchAll: GET /api/tasks with no filter; setTasks(await res.json()).
PageFetch ==
    /\ tri.pc = "mounted"
    /\ LET rows == TaskFindMany(tasks, NULL, UNDEF_STATUS) IN
       tri' = [tri EXCEPT !.pc = "loaded",
                          !.ui = [i \in 1..Len(rows) |-> resolveSnooze(rows[i], now)]]
    /\ UNCHANGED <<storeVars, reqs>>

\* A PATCH the page has sent, with the snapshot its handler holds.
PageRequest(op, id, body, snapshot) ==
    [op |-> op, id |-> id, body |-> body, snapshot |-> snapshot,
     pc |-> "sent", status |-> 0, resp |-> snapshot]

\* handleToggle, up to the fetch: the checkbox of an open task's row is clicked.
PageToggle(id) ==
    /\ tri.pc = "loaded"
    /\ Len(reqs) < MaxPageReqs
    /\ id \in UiIds(tri.ui)
    /\ LET task == UiTask(tri.ui, id)
           newStatus == IF task.status = "done" THEN "pending" ELSE "done"
       IN  /\ task.status # "done"
           /\ tri' = [tri EXCEPT !.ui = UiReplace(tri.ui, id,
                          [task EXCEPT !.status = newStatus, !.updated_at = now])]
           /\ reqs' = Append(reqs, PageRequest("toggle", id,
                          [NoPatch EXCEPT !.status = newStatus], task))
    /\ UNCHANGED storeVars

\* handleReschedule, up to the fetch: offered by the row of a task that is not done.
PageReschedule(id, newDate) ==
    /\ tri.pc = "loaded"
    /\ Len(reqs) < MaxPageReqs
    /\ id \in UiIds(tri.ui)
    /\ LET task == UiTask(tri.ui, id) IN
       /\ task.status # "done"
       /\ tri' = [tri EXCEPT !.ui = UiReplace(tri.ui, id, [task EXCEPT !.due_date = newDate])]
       /\ reqs' = Append(reqs, PageRequest("reschedule", id,
                      [NoPatch EXCEPT !.due_date = newDate], task))
    /\ UNCHANGED storeVars

\* handleReopen, up to the fetch: offered by the row of a done task under Completed.
PageReopen(id, newDate) ==
    /\ tri.pc = "loaded"
    /\ Len(reqs) < MaxPageReqs
    /\ id \in UiIds(tri.ui)
    /\ LET task == UiTask(tri.ui, id) IN
       /\ task.status = "done"
       /\ tri' = [tri EXCEPT !.ui = UiReplace(tri.ui, id,
                      [task EXCEPT !.status = "pending", !.due_date = newDate,
                                   !.updated_at = now])]
       /\ reqs' = Append(reqs, PageRequest("reopen", id, ReopenBody(newDate), task))
    /\ UNCHANGED storeVars

\* The server handles one of the page's PATCH requests: it writes and answers 200,
\* answers 500 when db.task.update throws, or the request is lost on the way.
PageOutcomes == {"ok", "reject", "network"}

PageServe(i, outcome) ==
    /\ reqs[i].pc = "sent"
    /\ IF outcome = "ok"
       THEN LET T == TaskUpdate(tasks, reqs[i].id, reqs[i].body, now)
                u == CHOOSE t \in T : t.id = reqs[i].id
            IN  /\ Commit(projects, T)
                /\ reqs' = [reqs EXCEPT ![i] = [@ EXCEPT !.pc = "answered", !.status = 200,
                                                         !.resp = resolveSnooze(u, now)]]
       ELSE /\ UNCHANGED <<projects, tasks, now>>
            /\ reqs' = [reqs EXCEPT ![i] =
                    [@ EXCEPT !.pc = "answered",
                              !.status = IF outcome = "reject" THEN 500 ELSE 0]]
    /\ UNCHANGED <<nextPid, nextTid, last, tri>>

\* A receive that leaves the optimistic copy in place when the toggle failed.
PageReceive_KeepsOptimistic(i) ==
    /\ reqs[i].pc = "answered"
    /\ tri' = [tri EXCEPT !.ui =
                  IF reqs[i].status = 200 THEN UiReplace(tri.ui, reqs[i].id, reqs[i].resp)
                  ELSE tri.ui]
    /\ reqs' = [reqs EXCEPT ![i] = [@ EXCEPT !.pc = "done"]]
    /\ UNCHANGED storeVars

\* The rest of a handler once its fetch settles: the answered task replaces the
\* page's copy when res.ok; handleToggle alone puts its snapshot back otherwise.
PageReceive(i) ==
    /\ reqs[i].pc = "answered"
    /\ tri' = [tri EXCEPT !.ui =
                  IF reqs[i].status = 200 THEN UiReplace(tri.ui, reqs[i].id, reqs[i].resp)
                  ELSE IF reqs[i].op = "toggle"
                  THEN UiReplace(tri.ui, reqs[i].id, reqs[i].snapshot)
                  ELSE tri.ui]
    /\ reqs' = [reqs EXCEPT ![i] = [@ EXCEPT !.pc = "done"]]
    /\ UNCHANGED storeVars

NextPage ==
    \/ PageMount
    \/ PageFetch
    \/ \E id \in PageTargets : PageToggle(id)
    \/ \E id \in PageTargets : PageReschedule(id, PageNewDate)
    \/ \E id \in PageTargets : PageReopen(id, PageNewDate)
    \/ \E i \in DOMAIN reqs, outcome \in PageOutcomes : PageServe(i, outcome)
    \/ \E i \in DOMAIN reqs : PageReceive(i)

SpecPage == InitPage /\ [][NextPage]_vars

\* The rows of the sections, in the order the tabs map over them.
OverdueRows(ui, today) == SelectSeq(ui, LAMBDA t : IsOverdue(t, today))
DueTodayRows(ui, today) == SelectSeq(ui, LAMBDA t : IsDueToday(t, today))
UpcomingRows(ui, today, todayPlus6) == SelectSeq(ui, LAMBDA t : IsUpcoming(t, today, todayPlus6))
CompletedRows(ui) == SelectSeq(ui, IsCompleted)

\* ------------------------------------------------------------------ claims: concurrency

\* C4: when createTask under a project's name runs concurrently with a rename of
\* that project, then once both have completed the created task references the
\* name of an existing project, whatever the interleaving of their storage calls.
C4_CreateSerializesWithRename ==
    Quiescent =>
        \A i \in DOMAIN reqs :
            (reqs[i].op = "createTask" /\ reqs[i].status = 201) =>
                \A t \in tasks : t.id = reqs[i].tid => t.project \in ProjectNames(projects)

\* C23: when two renameProject calls on the same project have both succeeded, in
\* whatever order their storage calls ran, every task stored under the project
\* before either call arrived is under the project's final name.
C23_RenamesRepointAllTasks ==
    Quiescent =>
        \A p \in projects :
            LET rs == {i \in DOMAIN reqs : /\ reqs[i].op = "renameProject"
                                           /\ reqs[i].id = p.id
                                           /\ reqs[i].status = 200}
            IN  (/\ Cardinality(rs) >= 2
                 /\ Cardinality(projects) = 1
                 /\ \A i \in DOMAIN reqs : reqs[i].op # "deleteProject"
                 /\ \A t \in tasks, i \in rs : t.created_at < reqs[i].at)
                => \A t \in tasks : t.project = p.name

\* C24: when the transaction of a deleteProject on a project other than the
\* sentinel commits and re-points tasks, a project named "Uncategorised" is stored.
C24_SentinelExistsAtReassignment ==
    [][\A i \in DOMAIN reqs :
          (/\ reqs[i].op = "deleteProject"
           /\ reqs[i].pc = "tx"
           /\ reqs'[i].status = 204
           /\ reqs[i].project # UNCATEGORISED
           /\ \E t \in tasks : t.project = reqs[i].project)
          => UNCATEGORISED \in ProjectNames(projects')
      ]_vars

\* ------------------------------------------------------------------ claims: the page

\* C21: the rows under Completed, as the page shows them once the tasks are
\* loaded, run from the most recently updated task to the least recently updated.
C21_CompletedByUpdatedDesc ==
    (tri.pc = "loaded" /\ reqs = <<>>) =>
        LET rows == CompletedRows(tri.ui) IN
        \A i \in DOMAIN rows, j \in DOMAIN rows :
            i < j => rows[i].updated_at >= rows[j].updated_at

\* C22: the rows under Overdue, under Due today and under Upcoming, as the page
\* shows them once the tasks are loaded, each run in ascending due-date order.
C22_SectionsByDueDateAsc ==
    (tri.pc = "loaded" /\ reqs = <<>>) =>
        \A rows \in {OverdueRows(tri.ui, tri.today), DueTodayRows(tri.ui, tri.today),
                      UpcomingRows(tri.ui, tri.today, tri.todayPlus6)} :
            \A i \in DOMAIN rows, j \in DOMAIN rows :
                i < j => rows[i].due_date <= rows[j].due_date

\* C27: when the request of a handleToggle settles, the page's copy of the task
\* becomes the task the server answered if the answer was OK, and otherwise the
\* copy the page held when the toggle was clicked.
C27_ToggleRevertsOrAdopts ==
    [][\A i \in DOMAIN reqs :
          (/\ reqs[i].op = "toggle"
           /\ reqs[i].pc = "answered"
           /\ reqs'[i].pc = "done")
          => UiTask(tri'.ui, reqs[i].id)
                = IF reqs[i].status = 200 THEN reqs[i].resp ELSE reqs[i].snapshot
      ]_vars

\* C27 witness: a toggle was refused and the page shows the task open again, as
\* it was when the toggle was clicked.
C27_Witness ==
    \E i \in DOMAIN reqs :
        /\ reqs[i].op = "toggle"
        /\ reqs[i].pc = "done"
        /\ reqs[i].status = 500
        /\ reqs[i].snapshot.status = "pending"
        /\ UiTask(tri.ui, reqs[i].id) = reqs[i].snapshot

\* C28: when the only request the page has issued is a reschedule or a reopen and
\* the server has refused it, then once it has settled the page's copy of the
\* task is the stored task.
C28_RejectedRescheduleRollsBack ==
    (/\ Len(reqs) = 1
     /\ reqs[1].op \in {"reschedule", "reopen"}
     /\ reqs[1].pc = "done"
     /\ reqs[1].status = 500)
    => UiTask(tri.ui, reqs[1].id) = CHOOSE t \in tasks : t.id = reqs[1].id

\* C29: when a toggle has failed and a reschedule of the same task, issued after
\* it, has succeeded, then once every request has settled the page shows the
\* stored due date of the task.
C29_RevertKeepsReschedule ==
    Quiescent =>
        \A i \in DOMAIN reqs, j \in DOMAIN reqs :
            (/\ i < j
             /\ reqs[i].op = "toggle" /\ reqs[i].status # 200
             /\ reqs[j].op = "reschedule" /\ reqs[j].status = 200
             /\ reqs[j].id = reqs[i].id)
            => UiTask(tri.ui, reqs[i].id).due_date
                  = (CHOOSE t \in tasks : t.id = reqs[i].id).due_date

\* ------------------------------------------------------------------ claims: triage

\* C1: for every task (any status, any due date or none) and every today, exactly
\* one of the six bucket predicates of the tabs holds for the task.
C1_PartitionTotalDisjoint ==
    tri.pc = "rendered" => Cardinality(tri.buckets) = 1

\* C5: a task that is not done and due exactly on today+7 is shown under
\* Scheduled, and not under Upcoming.
C5_Plus7IsScheduled ==
    (/\ tri.pc = "rendered"
     /\ tri.uiTask.status # "done"
     /\ tri.uiTask.due_date = tri.today + 7)
    => ("scheduled" \in tri.buckets /\ "upcoming" \notin tri.buckets)

\* C10: the resolver answers a snoozed task whose snoozed_until is strictly before
\* the resolver's today with status pending and nothing else changed; a snoozed task
\* whose snoozed_until is today, later or absent, and a task of any other status,
\* are answered as stored.
C10_SnoozeLapse ==
    tri.pc \in {"fetched", "rendered"} =>
        LET t == tri.task
            r == tri.uiTask
            today == UtcDate(tri.resolvedAt)
        IN  /\ (t.status = "snoozed" /\ t.snoozed_until # NoDate /\ t.snoozed_until < today)
                => (r.status = "pending" /\ [r EXCEPT !.status = "snoozed"] = t)
            /\ (t.status = "snoozed" /\ (t.snoozed_until = NoDate \/ t.snoozed_until >= today))
                => r = t
            /\ t.status # "snoozed" => r = t

\* C10 witness: a task snoozed until yesterday has been answered as pending.
C10_Witness ==
    /\ tri.pc = "fetched"
    /\ tri.task.status = "snoozed"
    /\ tri.task.snoozed_until = UtcDate(tri.resolvedAt) - 1
    /\ tri.uiTask.status = "pending"

\* C12: a task whose status is done is shown under Completed and under none of
\* Overdue, Due today, Upcoming, Scheduled and Unscheduled, whatever its due date.
C12_DoneIsCompletedOnly ==
    (tri.pc = "rendered" /\ tri.task.status = "done") => tri.buckets = {"completed"}

\* C12 witness: a done task whose due date has passed has been placed.
C12_Witness ==
    /\ tri.pc = "rendered"
    /\ tri.task.status = "done"
    /\ tri.task.due_date # NoDate
    /\ tri.task.due_date < tri.today

\* C13: a task that is not done and due today is shown under Due today, and under
\* neither Overdue nor Upcoming.
C13_DueTodayBoundary ==
    (/\ tri.pc = "rendered"
     /\ tri.uiTask.status # "done"
     /\ tri.uiTask.due_date = tri.today)
    => (/\ "due-today" \in tri.buckets
        /\ "overdue" \notin tri.buckets
        /\ "upcoming" \notin tri.buckets)

\* C13 witness: an open task due today has been placed under Due today.
C13_Witness ==
    /\ tri.pc = "rendered"
    /\ tri.uiTask.status # "done"
    /\ tri.uiTask.due_date = tri.today
    /\ "due-today" \in tri.buckets

\* C25: whenever the resolver has answered a task, the date it took as today is
\* the date the page's tabs take as today.
C25_SameToday ==
    tri.pc \in {"fetched", "rendered"} => UtcDate(tri.resolvedAt) = tri.today

\* ------------------------------------------------------------------ claims: store

\* The name project id holds in the set P of project rows.
NameOf(P, id) == (CHOOSE p \in P : p.id = id).name

\* The project field of the task with this id in the set T of task rows.
ProjectOfTask(T, id) == (CHOOSE t \in T : t.id = id).project

\* C2: after any sequence of createTask, updateTask, deleteTask, createProject,
\* renameProject and deleteProject calls run one at a time, the project of every
\* stored task is the name of an existing project.
C2_TaskProjectExists ==
    \A t \in tasks : t.project \in ProjectNames(projects)

\* C3: a successful renameProject(p, X) to a name other than p's own leaves every
\* task that was under p's old name under X and none under the old name, and the
\* task_count listed for X afterwards is the count listed for the old name before.
C3_RenameRoundTrip ==
    [][(/\ last'.op = "renameProject"
        /\ last'.status = 200
        /\ Trim(last'.req.name) # NameOf(projects, last'.req.id))
       => LET old == NameOf(projects, last'.req.id)
              X == Trim(last'.req.name)
          IN  /\ \A t \in tasks :
                    t.project = old => ProjectOfTask(tasks', t.id) = X
              /\ \A t \in tasks' : t.project # old
              /\ \E before \in {ProjectList(projects, tasks)[i] :
                                    i \in 1..Len(ProjectList(projects, tasks))} :
                    /\ before.name = old
                    /\ \E after \in {ProjectList(projects', tasks')[i] :
                                       i \in 1..Len(ProjectList(projects', tasks'))} :
                          after.name = X /\ after.task_count = before.task_count
      ]_vars

\* C6: after a successful deleteProject(p) a project named "Uncategorised" exists,
\* every task that was under p's name is under "Uncategorised", no task was deleted,
\* and p is no longer listed.
C6_DeleteReassigns ==
    [][(last'.op = "deleteProject" /\ last'.status = 204)
       => LET old == NameOf(projects, last'.req.id) IN
          /\ UNCATEGORISED \in ProjectNames(projects')
          /\ \A t \in tasks : t.project = old =>
                ProjectOfTask(tasks', t.id) = UNCATEGORISED
          /\ {t.id : t \in tasks'} = {t.id : t \in tasks}
          /\ \A i \in 1..Len(ProjectList(projects', tasks')) :
                ProjectList(projects', tasks')[i].id # last'.req.id
      ]_vars

\* C7: a deleteProject call that fails leaves the stored projects and tasks exactly
\* as they were: it has created no "Uncategorised" project.
C7_FailedDeleteChangesNothing ==
    [][(last'.op = "deleteProject" /\ last'.status = 500)
       => (projects' = projects /\ tasks' = tasks)]_vars

\* C8: an updateTask call answered NotFound leaves the stored tasks and the stored
\* projects unchanged, also when its body names a project that does not exist yet.
C8_NotFoundChangesNothing ==
    [][(last'.op = "updateTask" /\ last'.status = 404)
       => (projects' = projects /\ tasks' = tasks)]_vars

\* C9: renameProject to a name held by a different project is answered 409
\* "already exists" and changes no project's name and no task's project.
C9_RenameConflictRollsBack ==
    [][(/\ last'.op = "renameProject"
        /\ ProjectFindUnique(projects, last'.req.id) # {}
        /\ NameTaken(projects, last'.req.id, Trim(last'.req.name)))
       => (/\ last'.status = 409
           /\ last'.error = "already exists"
           /\ projects' = projects
           /\ tasks' = tasks)]_vars

\* C9 witness: a rename was refused with 409 while tasks sit under the project
\* that was to be renamed.
C9_Witness ==
    /\ last.op = "renameProject"
    /\ last.status = 409
    /\ \E p \in projects : p.id = last.req.id /\ TaskCount(tasks, p.name) > 0

\* C14: after any sequence of createTask and updateTask calls, also ones whose
\* updateTask supplies project as an empty string, no stored task has an empty
\* project.
C14_ProjectNeverEmpty ==
    \A t \in tasks : t.project # <<>>

\* C16: no two stored projects ever share a name, and createProject with a name
\* that already exists is answered 409 and adds no project.
C16_NamesUnique ==
    [][/\ \A p \in projects', q \in projects' : p.name = q.name => p = q
       /\ (last'.op = "createProject" /\ Trim(last'.req.name) \in ProjectNames(projects))
          => (last'.status = 409 /\ projects' = projects /\ nextPid' = nextPid)
      ]_vars

\* C16 witness: a createProject was refused with 409 for a name a project holds.
C16_Witness ==
    /\ last.op = "createProject"
    /\ last.status = 409
    /\ Cardinality({p \in projects : p.name = Trim(last.req.name)}) = 1

\* C19: updateTask with a status outside pending, in_progress, done, snoozed is
\* answered with a validation error and changes no task and no project, also when
\* its body names a project that does not exist yet.
C19_InvalidStatusChangesNothing ==
    [][(/\ last'.op = "updateTask"
        /\ last'.req.body.status # UNDEF_STATUS
        /\ last'.req.body.status \notin {"pending", "in_progress", "done", "snoozed"})
       => (/\ last'.status = 400
           /\ tasks' = tasks
           /\ projects' = projects)]_vars

\* C19 witness: an updateTask on a stored task was refused for its status while
\* the project its body names is still absent.
C19_Witness ==
    /\ last.op = "updateTask"
    /\ last.status = 400
    /\ \E t \in tasks : t.id = last.req.id
    /\ ~Falsy(last.req.body.project)
    /\ last.req.body.project \notin ProjectNames(projects)

\* C20: every project is listed by listProjects, and the task_count listed for it
\* is the number of stored tasks whose project is that project's name, 0 when
\* there are none.
C20_TaskCountMatches ==
    last.op = "listProjects"
    => /\ {last.body[i].id : i \in 1..Len(last.body)} = {p.id : p \in projects}
       /\ \A i \in 1..Len(last.body) :
             last.body[i].task_count
                = Cardinality({t \in tasks : t.project = last.body[i].name})

\* C20 witness: a listing shows one project with two tasks and one with none.
C20_Witness ==
    /\ last.op = "listProjects"
    /\ \E i \in 1..Len(last.body), j \in 1..Len(last.body) :
          last.body[i].task_count = 2 /\ last.body[j].task_count = 0

\* ------------------------------------------------------------------ claims: task routes

\* The name a response shows its request to have ensured: the trimmed project of a
\* created task, the project of a PATCH that got past validation; NULL otherwise.
EnsuredName(l) ==
    IF l.op = "createTask" /\ l.status = 201 THEN Trim(l.req.project)
    ELSE IF l.op = "updateTask" /\ l.status # 400 /\ ~Falsy(l.req.body.project)
    THEN l.req.body.project
    ELSE NULL

\* C11: a read (listTasks, getTask) changes no stored task, and a stored task that
\* is snoozed stays snoozed, whatever responses show it as pending, until an
\* updateTask on it carries another status.
C11_SnoozeNeverWrites ==
    [][/\ (last'.op \in {"listTasks", "getTask"} => tasks' = tasks)
       /\ \A t \in tasks, u \in tasks' :
             (t.id = u.id /\ t.status = "snoozed" /\ u.status # "snoozed")
             => (/\ last'.op = "updateTask"
                 /\ last'.status = 200
                 /\ last'.req.id = t.id
                 /\ last'.req.body.status = u.status)
      ]_vars

\* C11 witness: an updateTask that carried no status answered with the task shown
\* as pending while the stored row is still snoozed.
C11_Witness ==
    /\ last.op = "updateTask"
    /\ last.status = 200
    /\ last.req.body.status = UNDEF_STATUS
    /\ last.body[1].status = "pending"
    /\ \E t \in tasks : t.id = last.req.id /\ t.status = "snoozed"

\* C15: when two requests in a row ensure the same project name, the second leaves
\* the stored projects exactly as the first left them: one project of that name,
\* with the id it had.
C15_EnsureIdempotent ==
    [][(/\ EnsuredName(last) # NULL
        /\ EnsuredName(last') = EnsuredName(last)
        /\ last' # last)
       => (/\ projects' = projects
           /\ nextPid' = nextPid
           /\ Cardinality({p \in projects' : p.name = EnsuredName(last')}) = 1)
      ]_vars

\* C15 witness: a createTask naming " A" was served right after another task was
\* created under "A", and one project "A" exists.
C15_Witness ==
    /\ last.op = "createTask"
    /\ last.status = 201
    /\ last.req.project = <<" ", "A">>
    /\ \E t \in tasks : /\ t.project = NameA
                        /\ t.created_at + 1 = last.body[1].created_at
                        /\ t.updated_at = t.created_at
    /\ Cardinality({p \in projects : p.name = NameA}) = 1

\* C17: the reopen request carries status pending and the new due date in one
\* body, and after it the stored task has both the new status and the new due
\* date, or its status and due date are what they were; no other task changes.
C17_ReopenIsOneUpdate ==
    [][(/\ last'.op = "updateTask"
        /\ last' # last
        /\ last'.req.body = ReopenBody(3))
       => (/\ last'.req.body.status = "pending" /\ last'.req.body.due_date = 3
           /\ \A t \in tasks :
                 \E u \in tasks' :
                    /\ u.id = t.id
                    /\ IF t.id = last'.req.id
                       THEN \/ u.status = "pending" /\ u.due_date = 3
                            \/ u.status = t.status /\ u.due_date = t.due_date
                       ELSE u = t)
      ]_vars

\* C17 witness: a reopen was answered 200 and the stored task, written after it
\* was created, is pending with the new due date.
C17_Witness ==
    /\ last.op = "updateTask"
    /\ last.status = 200
    /\ last.req.body = ReopenBody(3)
    /\ \E t \in tasks : /\ t.id = last.req.id
                        /\ t.status = "pending"
                        /\ t.due_date = 3
                        /\ t.updated_at > t.created_at + 1

\* C18: createTask whose title or project is missing or blank after trimming is
\* answered with a validation error and stores no task and no project; any other
\* createTask stores one new task with the trimmed title and the trimmed project,
\* and a project of that trimmed name exists afterwards.
C18_CreateValidatesAndTrims ==
    [][(last'.op = "createTask" /\ last' # last)
       => LET title == last'.req.title
              project == last'.req.project
          IN  IF \/ Falsy(title) \/ Trim(title) = <<>>
                 \/ Falsy(project) \/ Trim(project) = <<>>
              THEN /\ last'.status = 400
                   /\ tasks' = tasks
                   /\ projects' = projects
              ELSE /\ last'.status = 201
                   /\ \E t \in tasks' \ tasks :
                         /\ tasks' = tasks \cup {t}
                         /\ t.title = Trim(title)
                         /\ t.project = Trim(project)
                   /\ Trim(project) \in ProjectNames(projects')
      ]_vars

\* C18 witness: a createTask sent with a padded title and a padded project was
\* stored trimmed, under a project that exists.
C18_Witness ==
    /\ last.op = "createTask"
    /\ last.status = 201
    /\ last.req.title = <<" ", "t", " ">>
    /\ \E t \in tasks : /\ t.id = last.body[1].id
                        /\ t.title = TitleT
                        /\ t.project = NameA
    /\ NameA \in ProjectNames(projects)

\* C26: listTasks with a status filter s answers exactly the tasks (of the project
\* asked for, if any) whose snooze-resolved status is s: every task in the answer
\* shows status s, and no task whose resolved status is s is missing from it.
C26_StatusFilterIsEffective ==
    [][(/\ last'.op = "listTasks"
        /\ last' # last
        /\ last'.req.status # UNDEF_STATUS)
       => LET s == last'.req.status
              shown == {last'.body[i] : i \in 1..Len(last'.body)}
          IN  /\ \A r \in shown : r.status = s
              /\ \A t \in tasks :
                    (/\ (~Falsy(last'.req.project) => t.project = last'.req.project)
                     /\ resolveSnooze(t, now).status = s)
                    => \E r \in shown : r.id = t.id
      ]_vars

\* C30: a successful updateTask leaves the task's id, source and created_at, every
\* one of title, notes, project, status, due_date and snoozed_until that its body
\* does not carry, and every other task as they were.
C30_UpdateFrame ==
    [][(/\ last'.op = "updateTask"
        /\ last'.status = 200
        /\ last' # last)
       => LET b == last'.req.body IN
          /\ {u.id : u \in tasks'} = {t.id : t \in tasks}
          /\ \A t \in tasks :
                \E u \in tasks' :
                   /\ u.id = t.id
                   /\ IF t.id = last'.req.id
                      THEN /\ u.source = t.source
                           /\ u.created_at = t.created_at
                           /\ (b.title = UNDEF => u.title = t.title)
                           /\ (b.notes = UNDEF => u.notes = t.notes)
                           /\ (b.project = UNDEF => u.project = t.project)
                           /\ (b.status = UNDEF_STATUS => u.status = t.status)
                           /\ (b.due_date = AbsentDate => u.due_date = t.due_date)
                           /\ (b.snoozed_until = AbsentDate
                                  => u.snoozed_until = t.snoozed_until)
                      ELSE u = t
      ]_vars

\* C30 witness: a status-only updateTask was served on a task that has a due date
\* while another task is stored, and the due date is still there.
C30_Witness ==
    /\ last.op = "updateTask"
    /\ last.status = 200
    /\ last.req.body = [NoPatch EXCEPT !.status = "done"]
    /\ \E t \in tasks : t.id = last.req.id /\ t.status = "done" /\ t.due_date = 3
    /\ \E t \in tasks : t.id # last.req.id

====
